---- MODULE Spec2Model ----
(***************************************************************************)
(* internet_blocker.py: a daily recurring window during which networking   *)
(* is disabled.  The model covers the window resolver (compute_window),    *)
(* the containment check (within_window), the polling sleep (sleep_until)  *)
(* and the scheduling loop of main with its exception handlers.            *)
(*                                                                         *)
(* Time is an integer number of ticks.  A datetime is the number of ticks  *)
(* since midnight of day 0; a dt.time is a record [hour, minute, second],  *)
(* where the field `second` stands for everything below the minute         *)
(* (seconds and microseconds), counted in ticks.                           *)
(***************************************************************************)
EXTENDS Integers, Sequences, FiniteSets, TLC

VARIABLES
    os_name,      \* platform.system()
    start,        \* args.start, a dt.time
    end,          \* args.end, a dt.time
    once,         \* args.once
    unblock_now,  \* args.unblock_now
    clock,        \* the wall clock, what dt.datetime.now() returns
    now,          \* main's local `now` (the argument of the pure functions)
    start_dt,     \* main's local start_dt
    end_dt,       \* main's local end_dt
    inside,       \* the value of within_window(now, start_dt, end_dt)
    target,       \* sleep_until's argument
    blocked,      \* main's local flag `blocked`
    pc,           \* the position of the process
    exit_code,    \* what main returns
    calls,        \* every capability call made so far, in order
    interrupt_at  \* the position at which KeyboardInterrupt was raised, or "none"

vars == <<os_name, start, end, once, unblock_now, clock, now, start_dt, end_dt,
          inside, target, blocked, pc, exit_code, calls, interrupt_at>>

config == <<os_name, start, end, once, unblock_now>>

----------------------------------------------------------------------------
(* Calendar and bounds *)

\* parse_hhmm accepts hours 0..23
MaxHour == 23

\* parse_hhmm accepts minutes 0..59; the model keeps the 24 hours of the day
\* and scales the minutes of an hour down to 0..MaxMinute
MaxMinute == 1

\* the clock's resolution below the minute: ticks per minute
TicksPerMinute == 2

\* the clock stops advancing at the end of day MaxDays - 1
MaxDays == 4

\* time.sleep(x) returns after at least x, at most x + MaxOversleep ticks
MaxOversleep == 1

\* instants and windows of the containment check range over 0..MaxInstant
MaxInstant == 8

\* sleep_until wakes at least every 30 seconds
SleepCapSeconds == 30

None == 0 - 1

HoursPerDay == MaxHour + 1

MinutesPerHour == MaxMinute + 1

TicksPerDay == HoursPerDay * MinutesPerHour * TicksPerMinute

MaxTime == MaxDays * TicksPerDay

Min(a, b) == IF a <= b THEN a ELSE b

Max(a, b) == IF a >= b THEN a ELSE b

\* the 30 second cap of sleep_until in ticks (a minute has 60 seconds)
SleepCap == Max(1, (SleepCapSeconds * TicksPerMinute) \div 60)

----------------------------------------------------------------------------
(* datetime *)

\* dt.time(hour=h, minute=m): second and microsecond are 0
mktime(h, m) == [hour |-> h, minute |-> m, second |-> 0]

\* the values parse_hhmm returns
TimesOfDay == {mktime(h, m) : h \in 0..MaxHour, m \in 0..MaxMinute}

\* dt.timedelta(days=n)
timedelta_days(n) == n * TicksPerDay

\* datetime.time(): the time-of-day part of a datetime
time_of(d) ==
    LET t == d % TicksPerDay
    IN  [hour   |-> t \div (MinutesPerHour * TicksPerMinute),
         minute |-> (t \div TicksPerMinute) % MinutesPerHour,
         second |-> t % TicksPerMinute]

\* a < b on dt.time values: lexicographic on the fields
time_lt(a, b) ==
    \/ a.hour < b.hour
    \/ a.hour = b.hour /\ a.minute < b.minute
    \/ a.hour = b.hour /\ a.minute = b.minute /\ a.second < b.second

\* a <= b on dt.time values
time_le(a, b) == time_lt(a, b) \/ a = b

\* d.replace(hour=t.hour, minute=t.minute, second=0, microsecond=0)
replace(d, t) ==
    (d \div TicksPerDay) * TicksPerDay
        + (t.hour * MinutesPerHour + t.minute) * TicksPerMinute

----------------------------------------------------------------------------
(* The window resolver *)

\* initial_window without the shift of end_dt to tomorrow (line 93 dropped)
initial_window_no_end_shift(now_, start_, end_) ==
    LET s0 == replace(now_, start_)
        e0 == replace(now_, end_)
    IN  IF time_le(end_, start_)
        THEN IF time_lt(time_of(now_), end_)
             THEN <<s0 - timedelta_days(1), e0>>
             ELSE <<s0, e0>>
        ELSE IF now_ > e0
             THEN <<s0 + timedelta_days(1), e0 + timedelta_days(1)>>
             ELSE <<s0, e0>>

\* initial_window with `now.time() <= end` for `now.time() < end` at line 88
initial_window_le_end(now_, start_, end_) ==
    LET s0 == replace(now_, start_)
        e0 == replace(now_, end_)
    IN  IF time_le(end_, start_)
        THEN IF time_le(time_of(now_), end_)
             THEN <<s0 - timedelta_days(1), e0>>
             ELSE <<s0, e0 + timedelta_days(1)>>
        ELSE IF now_ > e0
             THEN <<s0 + timedelta_days(1), e0 + timedelta_days(1)>>
             ELSE <<s0, e0>>

\* initial_window with `now >= end_dt` for `now > end_dt` at line 96
initial_window_ge_end(now_, start_, end_) ==
    LET s0 == replace(now_, start_)
        e0 == replace(now_, end_)
    IN  IF time_le(end_, start_)
        THEN IF time_lt(time_of(now_), end_)
             THEN <<s0 - timedelta_days(1), e0>>
             ELSE <<s0, e0 + timedelta_days(1)>>
        ELSE IF now_ >= e0
             THEN <<s0 + timedelta_days(1), e0 + timedelta_days(1)>>
             ELSE <<s0, e0>>

\* compute_window, lines 83-99: today's candidates and the first adjustment
initial_window(now_, start_, end_) ==
    LET s0 == replace(now_, start_)
        e0 == replace(now_, end_)
    IN  IF time_le(end_, start_)
        THEN IF time_lt(time_of(now_), end_)
             THEN <<s0 - timedelta_days(1), e0>>
             ELSE <<s0, e0 + timedelta_days(1)>>
        ELSE IF now_ > e0
             THEN <<s0 + timedelta_days(1), e0 + timedelta_days(1)>>
             ELSE <<s0, e0>>

\* post_check that re-derives end_dt on start_dt's own day also for a
\* midnight-crossing schedule (the branch of lines 103-104 dropped)
post_check_no_crossing(now_, start_, end_, w) ==
    IF now_ < w[1]
    THEN <<w[1], replace(w[1], end_)>>
    ELSE w

\* post_check that re-derives end_dt on the day after start_dt also for a
\* same-day schedule (the branch of lines 105-106 dropped)
post_check_next_day(now_, start_, end_, w) ==
    IF now_ < w[1]
    THEN <<w[1], replace(w[1] + timedelta_days(1), end_)>>
    ELSE w

\* compute_window, lines 101-106: the re-derivation of end_dt from start_dt
post_check(now_, start_, end_, w) ==
    IF now_ < w[1]
    THEN IF time_le(end_, start_)
         THEN <<w[1], replace(w[1] + timedelta_days(1), end_)>>
         ELSE <<w[1], replace(w[1], end_)>>
    ELSE w

compute_window(now_, start_, end_) ==
    post_check(now_, start_, end_, initial_window(now_, start_, end_))

\* within_window with a closed end: start_dt <= now <= end_dt
within_window_closed(now_, s, e) == s <= now_ /\ now_ <= e

within_window(now_, s, e) == s <= now_ /\ now_ < e

next_occurrence(now_, t) ==
    LET candidate == replace(now_, t)
    IN  IF candidate <= now_ THEN candidate + timedelta_days(1) ELSE candidate

----------------------------------------------------------------------------
(* The capabilities *)

\* the platforms block_network and unblock_network have a command for
Supported == {"Linux", "Darwin", "Windows"}

\* what subprocess.run(cmd, check=True) can do: return, raise CalledProcessError
\* (the utility exits non-zero), or raise OSError (the utility cannot be started)
CmdOutcomes == {"ok", "CalledProcessError", "OSError"}

run_cmd(r) == r

\* block_network without the `else: raise RuntimeError` of lines 54-55
block_network_any_os(os, r) == run_cmd(r)

block_network(os, r) ==
    IF os \in Supported THEN run_cmd(r) ELSE "RuntimeError"

unblock_network(os, r) ==
    IF os \in Supported THEN run_cmd(r) ELSE "RuntimeError"

Call(fn, res, cleanup) == [fn |-> fn, res |-> res, cleanup |-> cleanup]

\* except_code with every error taken for a failed system command
except_code_always_3(exc) == 3

\* main's except clauses for errors raised in the try block
except_code(exc) == IF exc = "CalledProcessError" THEN 3 ELSE 4

\* unblock_now_code with the exit codes of the scheduling loop
unblock_now_code_as_loop(res) == IF res = "ok" THEN 0 ELSE except_code(res)

\* main's except clause of the --unblock-now branch
unblock_now_code(res) == IF res = "ok" THEN 0 ELSE 2

----------------------------------------------------------------------------
(* main *)

\* the schedules the scheduler runs with, on the hour: midnight-crossing
\* (22:00 -> 06:00), same-day (06:00 -> 22:00) and start = end (06:00, 22:00)
RunTimes == {mktime(h, 0) : h \in {6, 22}}

\* the platforms the scheduler runs on: a supported one (the three supported
\* platforms differ only in the command line they run) and an unsupported one
Platforms == {"Linux", "Other"}

\* the instants of "today", day 1 (so that yesterday is day 0)
Today == timedelta_days(1) .. (timedelta_days(2) - 1)

\* the positions inside main's try block
TryPcs == {"loop", "block", "set_blocked", "sleep_end", "unblock",
           "clear_blocked", "sleep_start"}

Init ==
    /\ os_name \in Platforms
    /\ start \in RunTimes
    /\ end \in RunTimes
    /\ once \in BOOLEAN
    /\ unblock_now \in BOOLEAN
    /\ clock \in Today
    /\ now = None
    /\ start_dt = None
    /\ end_dt = None
    /\ inside = FALSE
    /\ target = None
    /\ blocked = FALSE
    /\ pc = "main"
    /\ exit_code = None
    /\ calls = <<>>
    /\ interrupt_at = "none"

\* lines 135-142: --unblock-now
UnblockNow ==
    /\ pc = "main"
    /\ unblock_now
    /\ \E r \in CmdOutcomes :
        LET res == unblock_network(os_name, r)
        IN  /\ calls' = Append(calls, Call("unblock", res, FALSE))
            /\ exit_code' = unblock_now_code(res)
    /\ pc' = "exit"
    /\ UNCHANGED <<config, clock, now, start_dt, end_dt, inside, target,
                   blocked, interrupt_at>>

\* lines 144-153: the banner, blocked = False, entering the try block
EnterLoop ==
    /\ pc = "main"
    /\ ~unblock_now
    /\ blocked' = FALSE
    /\ pc' = "loop"
    /\ UNCHANGED <<config, clock, now, start_dt, end_dt, inside, target,
                   exit_code, calls, interrupt_at>>

\* next_start without the fallback to next_occurrence of line 174
next_start_stale(now_, start_dt_, start_) == start_dt_

\* line 174
next_start(now_, start_dt_, start_) ==
    IF start_dt_ > now_ THEN start_dt_ ELSE next_occurrence(now_, start_)

\* lines 155-161 and 174-176: one pass over the head of the loop
LoopTop ==
    /\ pc = "loop"
    /\ LET w == compute_window(clock, start, end)
           within == within_window(clock, w[1], w[2])
       IN  /\ now' = clock
           /\ start_dt' = w[1]
           /\ end_dt' = w[2]
           /\ inside' = within
           /\ IF within
              THEN IF ~blocked
                   THEN pc' = "block" /\ target' = target
                   ELSE pc' = "sleep_end" /\ target' = w[2]
              ELSE pc' = "sleep_start"
                   /\ target' = next_start(clock, w[1], start)
    /\ UNCHANGED <<config, clock, blocked, exit_code, calls, interrupt_at>>

\* Block that goes back to the head of the loop when the call fails (a retry)
Block_retry ==
    /\ pc = "block"
    /\ \E r \in CmdOutcomes :
        LET res == block_network(os_name, r)
        IN  /\ calls' = Append(calls, Call("block", res, FALSE))
            /\ pc' = IF res = "ok" THEN "set_blocked" ELSE "loop"
    /\ UNCHANGED <<config, clock, now, start_dt, end_dt, inside, target,
                   blocked, exit_code, interrupt_at>>

\* line 162: block_network(os_name, args.name); an error leaves the try block
\* through the except clauses of lines 188-193
Block ==
    /\ pc = "block"
    /\ \E r \in CmdOutcomes :
        LET res == block_network(os_name, r)
        IN  /\ calls' = Append(calls, Call("block", res, FALSE))
            /\ IF res = "ok"
               THEN pc' = "set_blocked" /\ exit_code' = exit_code
               ELSE pc' = "exit" /\ exit_code' = except_code(res)
    /\ UNCHANGED <<config, clock, now, start_dt, end_dt, inside, target,
                   blocked, interrupt_at>>

\* lines 163-164: blocked = True, then the call of sleep_until(end_dt)
SetBlocked ==
    /\ pc = "set_blocked"
    /\ blocked' = TRUE
    /\ target' = end_dt
    /\ pc' = "sleep_end"
    /\ UNCHANGED <<config, clock, now, start_dt, end_dt, inside, exit_code,
                   calls, interrupt_at>>

\* sleep_until, lines 117-121: the target is not reached, sleep and poll again.
\* The clock advances while the process sleeps; the statements of main and the
\* capability calls take no time of their own.
SleepTick ==
    /\ pc \in {"sleep_end", "sleep_start"}
    /\ target - clock > 0
    /\ \E over \in 0..MaxOversleep :
        /\ clock' = clock + Min(target - clock, SleepCap) + over
        /\ clock' <= MaxTime
    /\ UNCHANGED <<config, now, start_dt, end_dt, inside, target, blocked, pc,
                   exit_code, calls, interrupt_at>>

\* SleepReturn without the test `remaining <= 0` of line 119
SleepReturn_early ==
    /\ pc \in {"sleep_end", "sleep_start"}
    /\ pc' = IF pc = "sleep_end" THEN "unblock" ELSE "loop"
    /\ UNCHANGED <<config, clock, now, start_dt, end_dt, inside, target,
                   blocked, exit_code, calls, interrupt_at>>

\* sleep_until, lines 117-120: the target is reached, return to main
SleepReturn ==
    /\ pc \in {"sleep_end", "sleep_start"}
    /\ target - clock <= 0
    /\ pc' = IF pc = "sleep_end" THEN "unblock" ELSE "loop"
    /\ UNCHANGED <<config, clock, now, start_dt, end_dt, inside, target,
                   blocked, exit_code, calls, interrupt_at>>

\* lines 165-167: unblock_network(os_name, args.name) at the window's end
Unblock ==
    /\ pc = "unblock"
    /\ \E r \in CmdOutcomes :
        LET res == unblock_network(os_name, r)
        IN  /\ calls' = Append(calls, Call("unblock", res, FALSE))
            /\ IF res = "ok"
               THEN pc' = "clear_blocked" /\ exit_code' = exit_code
               ELSE pc' = "exit" /\ exit_code' = except_code(res)
    /\ UNCHANGED <<config, clock, now, start_dt, end_dt, inside, target,
                   blocked, interrupt_at>>

\* ClearBlocked without the `if args.once: return 0` of lines 169-170
ClearBlocked_no_once ==
    /\ pc = "clear_blocked"
    /\ blocked' = FALSE
    /\ pc' = "loop"
    /\ UNCHANGED <<config, clock, now, start_dt, end_dt, inside, target,
                   exit_code, calls, interrupt_at>>

\* lines 168-171: blocked = False, then return 0 (--once) or continue
ClearBlocked ==
    /\ pc = "clear_blocked"
    /\ blocked' = FALSE
    /\ IF once
       THEN pc' = "exit" /\ exit_code' = 0
       ELSE pc' = "loop" /\ exit_code' = exit_code
    /\ UNCHANGED <<config, clock, now, start_dt, end_dt, inside, target,
                   calls, interrupt_at>>

\* Ctrl+C: KeyboardInterrupt is raised at any position inside the try block,
\* between two statements (at "set_blocked": after block_network has returned
\* and before `blocked = True`; at "clear_blocked": after unblock_network has
\* returned and before `blocked = False`).  One interrupt is modelled; a second
\* one, inside the handler, would leave main through an uncaught exception.
KeyboardInterrupt ==
    /\ pc \in TryPcs
    /\ interrupt_at = "none"
    /\ interrupt_at' = pc
    /\ pc' = "except_KeyboardInterrupt"
    /\ UNCHANGED <<config, clock, now, start_dt, end_dt, inside, target,
                   blocked, exit_code, calls>>

\* ExceptKeyboardInterrupt without the try/except of lines 182-186 around the
\* cleanup: its failure reaches the except clauses of the loop
ExceptKeyboardInterrupt_escalate ==
    /\ pc = "except_KeyboardInterrupt"
    /\ IF blocked
       THEN \E r \in CmdOutcomes :
                LET res == unblock_network(os_name, r)
                IN  /\ calls' = Append(calls, Call("unblock", res, TRUE))
                    /\ exit_code' = IF res = "ok" THEN 0 ELSE except_code(res)
       ELSE calls' = calls /\ exit_code' = 0
    /\ pc' = "exit"
    /\ UNCHANGED <<config, clock, now, start_dt, end_dt, inside, target,
                   blocked, interrupt_at>>

\* lines 178-187: the handler; a failing cleanup is caught and reported
ExceptKeyboardInterrupt ==
    /\ pc = "except_KeyboardInterrupt"
    /\ IF blocked
       THEN \E r \in CmdOutcomes :
                calls' = Append(calls,
                                Call("unblock", unblock_network(os_name, r), TRUE))
       ELSE calls' = calls
    /\ exit_code' = 0
    /\ pc' = "exit"
    /\ UNCHANGED <<config, clock, now, start_dt, end_dt, inside, target,
                   blocked, interrupt_at>>

\* the steps of the scheduling loop itself
Step ==
    \/ EnterLoop
    \/ LoopTop
    \/ Block
    \/ SetBlocked
    \/ SleepTick
    \/ SleepReturn
    \/ Unblock
    \/ ClearBlocked
    \/ ExceptKeyboardInterrupt

Next ==
    \/ UnblockNow
    \/ Step
    \/ KeyboardInterrupt

Spec == Init /\ [][Next]_vars

\* Without --once and without --unblock-now the loop runs for ever.  Datetimes
\* are counted from the midnight before "today"; when the head of the loop is
\* reached after "today" is over, the count restarts one day later: every
\* datetime moves back by one day and the log of calls starts again.
\* compute_window, within_window and next_occurrence see only times of day and
\* differences between datetimes, so the loop goes on as before.
InitForever == Init /\ ~once /\ ~unblock_now

DayOver == pc = "loop" /\ clock >= timedelta_days(2)

Yesterday(d) == IF d = None THEN None ELSE d - timedelta_days(1)

NextDay ==
    /\ DayOver
    /\ clock' = Yesterday(clock)
    /\ now' = Yesterday(now)
    /\ start_dt' = Yesterday(start_dt)
    /\ end_dt' = Yesterday(end_dt)
    /\ target' = Yesterday(target)
    /\ calls' = <<>>
    /\ UNCHANGED <<config, inside, blocked, pc, exit_code, interrupt_at>>

LoopStep == ~DayOver /\ Step

NextForever ==
    \/ LoopStep
    \/ NextDay
    \/ KeyboardInterrupt

\* the interpreter keeps executing the loop and time.sleep returns (time keeps
\* advancing); nothing obliges a KeyboardInterrupt to arrive
FairForever ==
    InitForever /\ [][NextForever]_vars /\ WF_vars(LoopStep) /\ WF_vars(NextDay)

\* --once without --unblock-now.  The interpreter keeps executing the loop and
\* time.sleep returns, so a step of the loop that stays possible is taken;
\* nothing obliges a KeyboardInterrupt to arrive.
InitOnce == Init /\ once /\ ~unblock_now

NextOnce ==
    \/ Step
    \/ KeyboardInterrupt

FairOnce == InitOnce /\ [][NextOnce]_vars /\ WF_vars(Step)

----------------------------------------------------------------------------
(* The pure functions on their own: compute_window and within_window applied  *)
(* to every argument of a bounded set.  The variables of main stay idle.      *)

Idle ==
    /\ os_name = "Linux"
    /\ once = FALSE
    /\ unblock_now = FALSE
    /\ target = None
    /\ blocked = FALSE
    /\ exit_code = None
    /\ calls = <<>>
    /\ interrupt_at = "none"

InitWindow ==
    /\ Idle
    /\ start \in TimesOfDay
    /\ end \in TimesOfDay
    /\ now \in Today
    /\ clock = now
    /\ start_dt = None
    /\ end_dt = None
    /\ inside = FALSE
    /\ pc = "compute_window"

\* start_dt, end_dt = compute_window(now, start, end), then
\* within_window(now, start_dt, end_dt), as lines 156 and 159 call them
ResolveWindow ==
    /\ pc = "compute_window"
    /\ LET w == compute_window(now, start, end)
       IN  /\ start_dt' = w[1]
           /\ end_dt' = w[2]
           /\ inside' = within_window(now, w[1], w[2])
    /\ pc' = "resolved"
    /\ UNCHANGED <<config, clock, now, target, blocked, exit_code, calls,
                   interrupt_at>>

NextWindow == ResolveWindow

SpecWindow == InitWindow /\ [][NextWindow]_vars

InitWithin ==
    /\ Idle
    /\ start = mktime(0, 0)
    /\ end = mktime(0, 0)
    /\ now \in 0..MaxInstant
    /\ start_dt \in 0..MaxInstant
    /\ end_dt \in 0..MaxInstant
    /\ start_dt < end_dt
    /\ clock = now
    /\ inside = FALSE
    /\ pc = "within_window"

CheckWithin ==
    /\ pc = "within_window"
    /\ inside' = within_window(now, start_dt, end_dt)
    /\ pc' = "contained"
    /\ UNCHANGED <<config, clock, now, start_dt, end_dt, target, blocked,
                   exit_code, calls, interrupt_at>>

NextWithin == CheckWithin

SpecWithin == InitWithin /\ [][NextWithin]_vars

\* the instant of day d (0 = yesterday, 1 = today, 2 = tomorrow) at h:m
at(d, h, m) == replace(timedelta_days(d), mktime(h, m))

TodayAt(t) == replace(now, t)

----------------------------------------------------------------------------
(* Claims about the window resolver and the containment check *)

\* C1: for every now and every valid (start, end), start = end and
\* end < start included, compute_window returns start_dt < end_dt (strictly).
C1_StartBeforeEnd ==
    pc = "resolved" => start_dt < end_dt

\* C1, the case reached: start = end, resolved to a window of one full day
C1_Witness ==
    /\ pc = "resolved"
    /\ start = end
    /\ end_dt - start_dt = timedelta_days(1)

\* no instant with time-of-day t lies in [a, b)
NoOccurrence(t, a, b) == \A i \in a..(b - 1) : time_of(i) # t

\* C2: the window compute_window returns is the active one
\* (start_dt <= now < end_dt) or the next one to begin (now < start_dt and no
\* instant with time-of-day `start` in [now, start_dt)); it is never a window
\* that is already over (end_dt <= now).
C2_ActiveOrNext ==
    pc = "resolved" =>
        /\ \/ start_dt <= now /\ now < end_dt
           \/ now < start_dt /\ NoOccurrence(start, now, start_dt)
        /\ ~(end_dt <= now)

\* C3: within_window(now, S, E) for S < E is true at now = S, false at
\* now = E, true strictly between, false before S and after E.
C3_HalfOpen ==
    pc = "contained" =>
        /\ now = start_dt => inside
        /\ now = end_dt => ~inside
        /\ (start_dt < now /\ now < end_dt) => inside
        /\ now < start_dt => ~inside
        /\ now > end_dt => ~inside

\* C3, the case reached: now is the end instant and is outside
C3_Witness ==
    /\ pc = "contained"
    /\ now = end_dt
    /\ start_dt < end_dt
    /\ ~inside

\* C4: end < start (midnight-crossing).  If now's time-of-day is before end,
\* the window is (yesterday at start, today at end) and now is within it;
\* otherwise it is (today at start, tomorrow at end) and now is within it
\* exactly when now's time-of-day is at or after start.
C4_Crossing ==
    (pc = "resolved" /\ time_lt(end, start)) =>
        IF time_lt(time_of(now), end)
        THEN /\ start_dt = TodayAt(start) - timedelta_days(1)
             /\ end_dt = TodayAt(end)
             /\ inside
        ELSE /\ start_dt = TodayAt(start)
             /\ end_dt = TodayAt(end) + timedelta_days(1)
             /\ inside <=> time_le(start, time_of(now))

\* C4, the case reached: start 22:00, end 06:00, now 23:00 gives today 22:00
\* to tomorrow 06:00, and now is within
C4_Witness ==
    /\ pc = "resolved"
    /\ start = mktime(22, 0)
    /\ end = mktime(6, 0)
    /\ now = at(1, 23, 0)
    /\ start_dt = at(1, 22, 0)
    /\ end_dt = at(2, 6, 0)
    /\ inside

----------------------------------------------------------------------------
(* Claims about the scheduling loop *)

Last(q) == q[Len(q)]

IsNormal(c) == ~c.cleanup

IsCleanup(c) == c.cleanup

\* the calls made by the loop itself, and those made by the interrupt handler
NormalCalls == SelectSeq(calls, IsNormal)

CleanupCalls == SelectSeq(calls, IsCleanup)

\* the handler is the only code that runs after the interrupt, so the calls
\* made by the loop are those made before it: the scheduler was in the
\* Blocking state when the interrupt arrived iff the last of them is a block
\* that succeeded (block applied, the window's normal unblock not completed)
InterruptedWhileBlocking ==
    /\ interrupt_at # "none"
    /\ NormalCalls # <<>>
    /\ Last(NormalCalls) = Call("block", "ok", FALSE)

\* C6: if KeyboardInterrupt arrives in the Blocking state (block applied, the
\* normal unblock of that window not yet completed), unblock is invoked exactly
\* once between the interrupt and termination, and block is not invoked again.
C6_CleanupUnblocksOnce ==
    (pc = "exit" /\ InterruptedWhileBlocking) =>
        /\ Len(CleanupCalls) = 1
        /\ CleanupCalls[1].fn = "unblock"

AllOk == \A i \in 1..Len(calls) : calls[i].res = "ok"

OneCycle == <<Call("block", "ok", FALSE), Call("unblock", "ok", FALSE)>>

\* in --once mode the normal unblock has returned and nothing has interrupted
AfterOnceUnblock ==
    /\ once
    /\ ~unblock_now
    /\ interrupt_at = "none"
    /\ calls # <<>>
    /\ Last(calls) = Call("unblock", "ok", FALSE)

\* C7: with --once, if no capability call fails and no interrupt arrives, the
\* process eventually exits with code 0 having called block exactly once and
\* then unblock exactly once; after that unblock no window is resolved, no
\* sleep is started and no capability is called.
C7_RunOnce ==
    /\ (pc = "main") ~>
           (pc = "exit" /\ (interrupt_at # "none" \/ ~AllOk
                            \/ (exit_code = 0 /\ calls = OneCycle)))
    /\ [](AfterOnceUnblock => calls = OneCycle)
    /\ [][AfterOnceUnblock =>
            \/ interrupt_at' # "none"
            \/ /\ pc' = "exit"
               /\ exit_code' = 0
               /\ UNCHANGED <<calls, clock, now, start_dt, end_dt, target>>]_vars

\* C7, the case reached: a --once run that was neither interrupted nor failed
\* has exited with code 0 after one block and one unblock, having slept
C7_Witness ==
    /\ pc = "exit"
    /\ once
    /\ interrupt_at = "none"
    /\ exit_code = 0
    /\ calls = OneCycle
    /\ clock >= end_dt

\* C8: every block call that succeeds is followed by an unblock invocation
\* before the process terminates, wherever an interrupt arrives and also when
\* the process ends through a failure exit.
C8_BlockPairedWithUnblock ==
    pc = "exit" =>
        \A i \in 1..Len(calls) :
            (calls[i].fn = "block" /\ calls[i].res = "ok") =>
                \E j \in (i + 1)..Len(calls) : calls[j].fn = "unblock"

\* C9: the exit code says how the scheduler stopped: 0 by an interrupt (in
\* either state) or after a successful --once cycle, 3 when a capability call
\* of a scheduled transition fails (the command exits non-zero), 4 for any
\* other error raised inside the loop; 2 only from a failed --unblock-now.
C9_ExitCodes ==
    /\ (pc = "exit" /\ ~unblock_now) =>
          /\ interrupt_at # "none" => exit_code = 0
          /\ (interrupt_at = "none" /\ AllOk) =>
                (once /\ calls = OneCycle /\ exit_code = 0)
          /\ (interrupt_at = "none" /\ ~AllOk) =>
                /\ Last(calls).res = "CalledProcessError" => exit_code = 3
                /\ Last(calls).res \in {"OSError", "RuntimeError"} =>
                      exit_code = 4
          /\ exit_code \in {0, 3, 4}
    /\ exit_code = 2 =>
          (unblock_now /\ pc = "exit" /\ Last(calls).res # "ok")

\* C9, the case reached: the unblock at the window's end failed, exit code 3
C9_Witness ==
    /\ pc = "exit"
    /\ ~unblock_now
    /\ interrupt_at = "none"
    /\ Len(calls) = 2
    /\ Last(calls) = Call("unblock", "CalledProcessError", FALSE)
    /\ exit_code = 3

\* C10: with --unblock-now unblock is invoked exactly once, block never, no
\* window is resolved and no sleep happens, and the exit code is 0 if the
\* unblock call succeeds and 2 if it fails for any reason.
C10_UnblockNow ==
    unblock_now =>
        /\ pc \in {"main", "exit"}
        /\ now = None /\ start_dt = None /\ end_dt = None /\ target = None
        /\ pc = "main" => calls = <<>>
        /\ pc = "exit" =>
              /\ Len(calls) = 1
              /\ calls[1].fn = "unblock"
              /\ exit_code = IF calls[1].res = "ok" THEN 0 ELSE 2

\* C10, the case reached: --unblock-now on an unsupported platform, exit code 2
C10_Witness ==
    /\ unblock_now
    /\ pc = "exit"
    /\ calls = <<Call("unblock", "RuntimeError", FALSE)>>
    /\ exit_code = 2

----------------------------------------------------------------------------
(* More claims about the window resolver *)

\* C16: start_dt and end_dt describe the same window instance: start_dt has
\* time-of-day start, end_dt has time-of-day end, and end_dt is the first
\* instant with time-of-day end strictly after start_dt, so that
\* 0 < end_dt - start_dt <= 24 hours.
C16_SameInstance ==
    pc = "resolved" =>
        /\ time_of(start_dt) = start
        /\ time_of(end_dt) = end
        /\ start_dt < end_dt
        /\ NoOccurrence(end, start_dt + 1, end_dt)
        /\ end_dt - start_dt <= timedelta_days(1)

\* C16, the case reached: a midnight-crossing window still in the future, the
\* case in which the post-check re-derives end_dt
C16_Witness ==
    /\ pc = "resolved"
    /\ time_lt(end, start)
    /\ now < start_dt
    /\ end_dt = TodayAt(end) + timedelta_days(1)
    /\ end_dt - start_dt < timedelta_days(1)

\* C18: the post-check never changes the result: compute_window returns what
\* lines 83-99 alone (compute_window without lines 101-106) return.
C18_PostCheckIdle ==
    pc = "resolved" => <<start_dt, end_dt>> = initial_window(now, start, end)

\* C18, the case reached: now < start_dt, so the post-check has assigned end_dt
C18_Witness ==
    /\ pc = "resolved"
    /\ now < start_dt
    /\ time_lt(start, end)
    /\ now > TodayAt(end)

----------------------------------------------------------------------------
(* More claims about the scheduling loop *)

\* the process has slept: the clock has advanced since the loop read it
HasSlept == now # None /\ now < clock

\* C11 as stated: on a platform other than Linux, Darwin or Windows the
\* process aborts before any sleep or wait for the window start, with an exit
\* code distinct from those of every other outcome (0, 2, 3, 4).
C11_AbortsAtOnce ==
    (os_name \notin Supported /\ ~unblock_now) =>
        /\ ~HasSlept
        /\ pc = "exit" => exit_code \notin {0, 2, 3, 4}

\* C11 as amended: on an unsupported platform the process fails at its first
\* capability call and makes no other; the scheduling loop makes that call
\* only when the window is entered, after the wait for the window start when
\* it was started outside the window; the exit code is 4, that of any other
\* uncaught error (2 with --unblock-now, 0 when an interrupt stops it first).
C11_FailsAtFirstUse ==
    os_name \notin Supported =>
        /\ ~blocked
        /\ Len(calls) <= 1
        /\ pc \notin {"set_blocked", "sleep_end", "unblock", "clear_blocked"}
        /\ calls # <<>> =>
              /\ calls[1] = Call(IF unblock_now THEN "unblock" ELSE "block",
                                 "RuntimeError", FALSE)
              /\ pc = "exit"
              /\ exit_code = IF unblock_now THEN 2 ELSE 4
        /\ (pc = "exit" /\ calls = <<>>) =>
              (interrupt_at # "none" /\ exit_code = 0)

\* C11, the case reached: started outside the window on an unsupported
\* platform, the process has waited for the window start and then exited 4
C11_Witness ==
    /\ os_name \notin Supported
    /\ pc = "exit"
    /\ exit_code = 4
    /\ calls = <<Call("block", "RuntimeError", FALSE)>>
    /\ target # None
    /\ target = start_dt
    /\ clock >= target

\* C12: a capability call that fails in a normal transition ends the loop at
\* once and no capability is invoked afterwards (no retry, no cleanup); when
\* the failing call is block, `blocked` is False at termination.
C12_FailureIsFatal ==
    ~unblock_now =>
        \A i \in 1..Len(calls) :
            (~calls[i].cleanup /\ calls[i].res # "ok") =>
                /\ i = Len(calls)
                /\ pc = "exit"
                /\ exit_code \in {3, 4}
                /\ calls[i].fn = "block" => ~blocked

\* C12, the case reached: block failed on a supported platform
C12_Witness ==
    /\ ~unblock_now
    /\ pc = "exit"
    /\ calls = <<Call("block", "CalledProcessError", FALSE)>>
    /\ ~blocked
    /\ exit_code = 3

\* C13: when the cleanup unblock after an interrupt fails, the failure does
\* not escalate: the exit code is 0 as after a successful cleanup (not 3 or
\* 4), and no further capability call is made.
C13_CleanupFailureSwallowed ==
    \A i \in 1..Len(calls) :
        calls[i].cleanup =>
            /\ i = Len(calls)
            /\ calls[i].fn = "unblock"
            /\ interrupt_at # "none"
            /\ pc = "exit"
            /\ exit_code = 0

\* C13, the case reached: the cleanup unblock failed and the exit code is 0
C13_Witness ==
    /\ pc = "exit"
    /\ calls # <<>>
    /\ Last(calls) = Call("unblock", "CalledProcessError", TRUE)
    /\ exit_code = 0

\* C15: in the scheduling loop, interrupts included, capability calls strictly
\* alternate starting with block: block is never invoked after a block, and
\* unblock only when the most recent capability call was a block.
C15_CallsAlternate ==
    ~unblock_now =>
        \A i \in 1..Len(calls) :
            calls[i].fn = IF i % 2 = 1 THEN "block" ELSE "unblock"

\* t lies in the daily window of the schedule (start, end)
InDailyWindow(t) ==
    IF time_le(end, start)
    THEN time_le(start, time_of(t)) \/ time_lt(time_of(t), end)
    ELSE time_le(start, time_of(t)) /\ time_lt(time_of(t), end)

C20_FlagMatchesLastCall ==
    pc \in TryPcs =>
        /\ blocked <=> (calls # <<>> /\ Last(calls) = Call("block", "ok", FALSE))
        /\ pc = "loop" => ~blocked

----------------------------------------------------------------------------
(* The resolver on every input together with the scheduler *)

InitBoth ==
    \/ Init
    \/ InitWindow

NextBoth ==
    \/ Next
    \/ NextWindow

SpecBoth == InitBoth /\ [][NextBoth]_vars

\* C14: when start = end the window compute_window returns is, for every now,
\* exactly 24 hours long and contains now; so the scheduler never waits for a
\* window start, and after each normal unblock the very next pass over the
\* head of the loop goes on to block.
C14_StartEqualsEnd ==
    /\ [](start = end =>
            /\ start_dt # None =>
                  /\ end_dt - start_dt = timedelta_days(1)
                  /\ start_dt <= now /\ now < end_dt
                  /\ inside
            /\ pc # "sleep_start")
    /\ [][(start = end /\ pc = "loop") =>
            pc' \in {"block", "except_KeyboardInterrupt"}]_vars

\* C14, the case reached: with start = end, the window's end was slept out,
\* unblock was called, and block has been called again at that same instant
C14_Witness ==
    /\ start = end
    /\ pc = "set_blocked"
    /\ Len(calls) = 3
    /\ calls[2] = Call("unblock", "ok", FALSE)
    /\ calls[3] = Call("block", "ok", FALSE)
    /\ start_dt = now

----------------------------------------------------------------------------
(* The loop without --once *)

\* the loop has been left: by an interrupt or by an error
Stopped == pc \in {"exit", "except_KeyboardInterrupt"}

\* C17: without --once, when no capability call fails, no interrupt arrives
\* and time keeps advancing, the loop never terminates; the window start it
\* waits for is the next daily start, and block is then invoked at or after
\* that start, unblock at or after that window's end; block and unblock are
\* each invoked infinitely often.
C17_RunsForever ==
    /\ [](pc = "exit" => (interrupt_at # "none" \/ ~AllOk))
    /\ [](pc = "sleep_start" =>
            /\ now < target
            /\ time_of(target) = start
            /\ NoOccurrence(start, now, target))
    /\ (pc = "sleep_start") ~>
           (Stopped \/ (pc = "set_blocked" /\ start_dt = target
                                           /\ start_dt <= clock))
    /\ (pc = "sleep_end") ~>
           (Stopped \/ (pc = "clear_blocked" /\ end_dt = target
                                             /\ end_dt <= clock))
    /\ []<>(Stopped \/ pc = "set_blocked")
    /\ []<>(Stopped \/ pc = "clear_blocked")

\* C17, the case reached: two full cycles of block and unblock without a
\* failure or an interrupt, the second one ending on the following day
C17_Witness ==
    /\ ~once
    /\ pc = "clear_blocked"
    /\ interrupt_at = "none"
    /\ Len(calls) = 4
    /\ AllOk
    /\ clock >= timedelta_days(2)

====
